---- MODULE Spec2Model ----
(***************************************************************************)
(* bankX: the server actions of lib/actions/user.actions.ts.               *)
(*                                                                         *)
(* The linking workflow exchangePublicToken is modelled as one process per *)
(* run; every `await` of an external call is a point where the run is      *)
(* suspended, and the action that models the call's return also executes   *)
(* the synchronous code up to the next `await` (or to the end of the       *)
(* function).  The actions signIn, signUp, getLoggedInUser, logoutAccount  *)
(* and createLinkToken are modelled the same way for one browser, whose    *)
(* cookie jar holds the 'appwrite-session' cookie.  The queries getBanks,  *)
(* getBank and getBankByAccountId read the bank collection in one step.    *)
(* The component AuthForm (components/AuthForm.tsx) is a process of the    *)
(* same browser that submits sign-in and sign-up requests.                 *)
(***************************************************************************)
EXTENDS Integers, Sequences, FiniteSets, TLC

\* ---------------------------------------------------------------- bounds
MaxRuns == 2        \* linking workflow runs that may interleave
MaxAccounts == 2    \* longest account list accountsGet returns
MaxRequests == 3    \* requests of the browser
MaxOps == 2         \* operations of one behaviour of the whole module

\* ------------------------------------------------------- external values
Runs == 1..MaxRuns
Users == {"user-1", "user-2"}
PublicTokens == {"public-sandbox-123", "public-sandbox-456"}
ExchangeResponses ==
    { [access_token |-> "access-abc", item_id |-> "item-1"],
      [access_token |-> "access-def", item_id |-> "item-2"] }
\* The public token a user's Link flow hands to exchangePublicToken (the
\* flow is opened with the link token created for that user), and the item
\* the aggregation service exchanges that token for.
PublicTokenOf(u) ==
    IF u = "user-1" THEN "public-sandbox-123" ELSE "public-sandbox-456"
ExchangeResponseFor(t) ==
    IF t = "public-sandbox-123"
    THEN [access_token |-> "access-abc", item_id |-> "item-1"]
    ELSE [access_token |-> "access-def", item_id |-> "item-2"]
PlaidAccounts ==
    { [account_id |-> "acc-1", name |-> "Checking"],
      [account_id |-> "acc-2", name |-> "Savings"] }
AccountLists == UNION { [1..n -> PlaidAccounts] : n \in 0..MaxAccounts }
ProcessorTokens == {"proc-xyz"}
FundingUrls == {"https://rail/funding/1"}

Emails == {"ann@bankx.io", "bob@bankx.io"}
Passwords == {"pw-1", "pw-2"}
\* a customer url, by its path segments
DwollaCustomerUrls == { <<"https:", "", "rail", "customers", "c-1">> }

None == "none"            \* a local that was not assigned yet
Undefined == "undefined"  \* the JavaScript value undefined
NoUrl == Undefined        \* addFundingSource resolved to a falsy value
\* accounts[0] of an empty list: reading a property of it throws TypeError
UndefinedAccount == [account_id |-> Undefined, name |-> Undefined]
NoCookie == <<>>          \* the cookie jar holds no 'appwrite-session'
NoCustomerUrl == <<>>     \* createDwollaCustomer resolved to a falsy value
Nothing == <<>>           \* an unassigned local that holds a record later
Some(x) == <<x>>

VARIABLES
    runs,       \* runs[r]: the locals and position of linking run r
    banks,      \* the documents of the bank collection
    nextId,     \* the next id ID.unique() hands out
    cookie,     \* the browser's 'appwrite-session' cookie, or None
    accounts,   \* identity accounts: the set of [id, email] created
    users,      \* the documents of the user collection
    sessions,   \* the session secrets the identity gateway issued
    auth,       \* the locals and position of the authentication request
    lookup,     \* the latest query of the bank collection and its result
    form        \* the state of the AuthForm component of the browser

vars ==
    <<runs, banks, nextId, cookie, accounts, users, sessions, auth, lookup,
      form>>
linkVars == <<runs, banks, nextId>>
authVars == <<cookie, accounts, users, sessions, auth>>

\* ------------------------------------------------------------- utilities
\* lib/utils encryptId: the derived shareable id of an account id.
encryptId(id) == <<"encrypted", id>>

\* parseStringify (JSON round trip) of the completion marker.
CompletionMarker == [publicTokenExchange |-> "complete"]

\* The steps of the workflow, in the order of the source text.
Steps == <<"exchange", "accounts", "processor", "funding", "persist",
           "refresh", "return">>
StepNo(s) == CHOOSE i \in 1..Len(Steps) : Steps[i] = s

IdleRun ==
    [ pc |-> "idle", user |-> None, publicToken |-> None,
      accessToken |-> None, itemId |-> None,
      accountData |-> UndefinedAccount,
      processorToken |-> None, fundingSourceUrl |-> None,
      result |-> None, docs |-> {}, log |-> <<>> ]

\* log events: <<"call", step>> when the step's call is made,
\* <<"ok", step>> / <<"fail", step>> when it returned / failed, and
\* <<"empty", "accounts">> when accountsGet returned an empty list, or
\* <<"first", id>> with the account id of the first account it returned.
First(rec, accts) ==
    [rec EXCEPT !.log = Append(@, <<"first", accts[1].account_id>>)]
Empty(rec) == [rec EXCEPT !.log = Append(@, <<"empty", "accounts">>)]
Call(rec, step) == [rec EXCEPT !.log = Append(@, <<"call", step>>)]
Ok(rec, step) == [rec EXCEPT !.log = Append(@, <<"ok", step>>)]

\* catch (error) { console.error(...); throw error; }
Rethrow(rec, step) ==
    [rec EXCEPT !.pc = "done", !.result = "error",
                !.log = Append(@, <<"fail", step>>)]

\* ------------------------------------------------- exchangePublicToken
\* The caller invokes exchangePublicToken({publicToken, user}); the run
\* calls itemPublicTokenExchange and is suspended on it.  Runs are started
\* in the order of their numbers (they are interchangeable).
Begin(r) ==
    /\ runs[r].pc = "idle"
    /\ \A q \in Runs : q < r => runs[q].pc # "idle"
    /\ \E u \in Users, t \in PublicTokens :
         /\ t = PublicTokenOf(u)
         /\ runs' = [runs EXCEPT ![r] =
                    Call([IdleRun EXCEPT !.pc = "exchange", !.user = u,
                                         !.publicToken = t], "exchange")]
    /\ UNCHANGED <<banks, nextId, authVars, lookup, form>>

\* Faulty variant: a rejected exchange is tried once more.
ExchangeReturns_Retry(r) ==
    /\ runs[r].pc = "exchange"
    /\ \/ runs' = [runs EXCEPT ![r] =
            IF Len(@.log) < 2
            THEN Call([@ EXCEPT !.log = Append(@, <<"fail", "exchange">>)],
                      "exchange")
            ELSE Rethrow(@, "exchange")]
       \/ \E resp \in ExchangeResponses :
            /\ resp = ExchangeResponseFor(runs[r].publicToken)
            /\ runs' = [runs EXCEPT ![r] =
                       Call(Ok([@ EXCEPT !.pc = "accounts",
                                         !.accessToken = resp.access_token,
                                         !.itemId = resp.item_id],
                               "exchange"), "accounts")]
    /\ UNCHANGED <<banks, nextId, authVars, lookup, form>>

\* itemPublicTokenExchange returns: on rejection the catch block rethrows;
\* otherwise accessToken and itemId are read and accountsGet is called.
ExchangeReturns(r) ==
    /\ runs[r].pc = "exchange"
    /\ \/ runs' = [runs EXCEPT ![r] = Rethrow(@, "exchange")]
       \/ \E resp \in ExchangeResponses :
            /\ resp = ExchangeResponseFor(runs[r].publicToken)
            /\ runs' = [runs EXCEPT ![r] =
                       Call(Ok([@ EXCEPT !.pc = "accounts",
                                         !.accessToken = resp.access_token,
                                         !.itemId = resp.item_id],
                               "exchange"), "accounts")]
    /\ UNCHANGED <<banks, nextId, authVars, lookup, form>>

\* Faulty variant: the account id is read with optional chaining, so an empty
\* list does not throw and the run goes on with an undefined account.
AccountsReturns_NoThrow(r) ==
    /\ runs[r].pc = "accounts"
    /\ \/ runs' = [runs EXCEPT ![r] = Rethrow(@, "accounts")]
       \/ \E accts \in AccountLists :
            LET data == IF Len(accts) = 0 THEN UndefinedAccount ELSE accts[1]
                rec == [runs[r] EXCEPT !.accountData = data]
            IN  runs' = [runs EXCEPT ![r] =
                  Call(Ok([(IF data = UndefinedAccount THEN Empty(rec) ELSE rec)
                             EXCEPT !.pc = "processor"], "accounts"),
                       "processor")]
    /\ UNCHANGED <<banks, nextId, authVars, lookup, form>>

\* accountsGet returns: accountData = accounts[0]; building the processor
\* request reads accountData.account_id, a TypeError when the list is empty.
AccountsReturns(r) ==
    /\ runs[r].pc = "accounts"
    /\ \/ runs' = [runs EXCEPT ![r] = Rethrow(@, "accounts")]
       \/ \E accts \in AccountLists :
            LET data == IF Len(accts) = 0 THEN UndefinedAccount ELSE accts[1]
                rec == [runs[r] EXCEPT !.accountData = data]
            IN  runs' = [runs EXCEPT ![r] =
                  IF data = UndefinedAccount
                  THEN Rethrow(Empty(rec), "accounts")
                  ELSE Call(Ok(First([rec EXCEPT !.pc = "processor"], accts),
                               "accounts"), "processor")]
    /\ UNCHANGED <<banks, nextId, authVars, lookup, form>>

\* processorTokenCreate returns: the token is read and addFundingSource is
\* called with (user.dwollaCustomerId, processorToken, accountData.name).
ProcessorReturns(r) ==
    /\ runs[r].pc = "processor"
    /\ \/ runs' = [runs EXCEPT ![r] = Rethrow(@, "processor")]
       \/ \E tok \in ProcessorTokens :
            runs' = [runs EXCEPT ![r] =
                       Call(Ok([@ EXCEPT !.pc = "funding",
                                         !.processorToken = tok],
                               "processor"), "funding")]
    /\ UNCHANGED <<banks, nextId, authVars, lookup, form>>

\* Faulty variant: the check `if (!fundingSourceUrl) throw Error` is missing.
FundingReturns_NoUrlCheck(r) ==
    /\ runs[r].pc = "funding"
    /\ \/ runs' = [runs EXCEPT ![r] = Rethrow(@, "funding")]
       \/ \E url \in FundingUrls \cup {NoUrl} :
            runs' = [runs EXCEPT ![r] =
                       Call(Ok([@ EXCEPT !.pc = "createDocument",
                                         !.fundingSourceUrl = url],
                               "funding"), "persist")]
    /\ UNCHANGED <<banks, nextId, authVars, lookup, form>>

\* Faulty variant: the function ends after the funding-source check, without
\* createBankAccount, revalidatePath and the return of the marker.
FundingReturns_NoPersist(r) ==
    /\ runs[r].pc = "funding"
    /\ \/ runs' = [runs EXCEPT ![r] = Rethrow(@, "funding")]
       \/ \E url \in FundingUrls \cup {NoUrl} :
            LET rec == [runs[r] EXCEPT !.fundingSourceUrl = url]
            IN  runs' = [runs EXCEPT ![r] =
                  IF url = NoUrl
                  THEN Rethrow(rec, "funding")
                  ELSE [Ok(rec, "funding") EXCEPT !.pc = "done",
                                                  !.result = Undefined]]
    /\ UNCHANGED <<banks, nextId, authVars, lookup, form>>

\* addFundingSource returns: it rejects, or resolves to a url or to no url;
\* `if (!fundingSourceUrl) throw Error`; otherwise createBankAccount is
\* called, which builds the admin client and calls database.createDocument.
FundingReturns(r) ==
    /\ runs[r].pc = "funding"
    /\ \/ runs' = [runs EXCEPT ![r] = Rethrow(@, "funding")]
       \/ \E url \in FundingUrls \cup {NoUrl} :
            LET rec == [runs[r] EXCEPT !.fundingSourceUrl = url]
            IN  runs' = [runs EXCEPT ![r] =
                  IF url = NoUrl
                  THEN Rethrow(rec, "funding")
                  ELSE Call(Ok([rec EXCEPT !.pc = "createDocument"],
                               "funding"), "persist")]
    /\ UNCHANGED <<banks, nextId, authVars, lookup, form>>

\* Faulty variant: the item id and the access token change places.
BankDocument_Swapped(rec, id) ==
    [ id |-> id,
      userId |-> rec.user,
      bankId |-> rec.accessToken,
      accountId |-> rec.accountData.account_id,
      accessToken |-> rec.itemId,
      fundingSourceUrl |-> rec.fundingSourceUrl,
      shareableId |-> encryptId(rec.accountData.account_id) ]

\* Faulty variant: the shareable id is derived from the item id.
BankDocument_ShareableOfItem(rec, id) ==
    [ id |-> id,
      userId |-> rec.user,
      bankId |-> rec.itemId,
      accountId |-> rec.accountData.account_id,
      accessToken |-> rec.accessToken,
      fundingSourceUrl |-> rec.fundingSourceUrl,
      shareableId |-> encryptId(rec.itemId) ]

\* The document createBankAccount hands to database.createDocument.
BankDocument(rec, id) ==
    [ id |-> id,
      userId |-> rec.user,
      bankId |-> rec.itemId,
      accountId |-> rec.accountData.account_id,
      accessToken |-> rec.accessToken,
      fundingSourceUrl |-> rec.fundingSourceUrl,
      shareableId |-> encryptId(rec.accountData.account_id) ]

\* After `await createBankAccount(...)`: revalidatePath("/") and then
\* return parseStringify({publicTokenExchange: "complete"}); a throw of
\* revalidatePath reaches the catch block, which rethrows.
AfterCreateBankAccount(rec, refreshOk) ==
    IF refreshOk
    THEN [Ok(Call(Ok(Call(rec, "refresh"), "refresh"), "return"), "return")
            EXCEPT !.pc = "done", !.result = CompletionMarker.publicTokenExchange]
    ELSE Rethrow(Call(rec, "refresh"), "refresh")

\* Faulty variant: the access token is kept in a variable the invocations
\* share, so the document is written with the token of whichever run
\* assigned it last.
CreateDocumentReturns_SharedToken(r) ==
    /\ runs[r].pc = "createDocument"
    /\ \E refreshOk \in BOOLEAN, q \in Runs :
         /\ runs[q].accessToken # None
         /\ banks' = banks \cup
               {BankDocument([runs[r] EXCEPT !.accessToken =
                                               runs[q].accessToken], nextId)}
         /\ nextId' = nextId + 1
         /\ runs' = [runs EXCEPT ![r] =
              AfterCreateBankAccount(
                 Ok([@ EXCEPT !.docs = @ \cup {nextId}], "persist"),
                 refreshOk)]
    /\ UNCHANGED <<authVars, lookup, form>>

\* Faulty variant: the write replaces the links of the same account id.
CreateDocumentReturns_Upsert(r) ==
    /\ runs[r].pc = "createDocument"
    /\ \E refreshOk \in BOOLEAN :
         LET doc == BankDocument(runs[r], nextId)
         IN  /\ banks' = { d \in banks : d.accountId # doc.accountId }
                            \cup {doc}
             /\ nextId' = nextId + 1
             /\ runs' = [runs EXCEPT ![r] =
                  AfterCreateBankAccount(
                     Ok([@ EXCEPT !.docs = @ \cup {nextId}], "persist"),
                     refreshOk)]
    /\ UNCHANGED <<authVars, lookup, form>>

\* database.createDocument returns inside createBankAccount: a written
\* document is returned; a failed write is caught, logged and swallowed
\* (createBankAccount resolves to undefined), and exchangePublicToken goes
\* on either way.
CreateDocumentReturns(r) ==
    /\ runs[r].pc = "createDocument"
    /\ \E refreshOk \in BOOLEAN :
         \/ /\ banks' = banks \cup {BankDocument(runs[r], nextId)}
            /\ nextId' = nextId + 1
            /\ runs' = [runs EXCEPT ![r] =
                 AfterCreateBankAccount(
                    Ok([@ EXCEPT !.docs = @ \cup {nextId}], "persist"),
                    refreshOk)]
         \/ /\ runs' = [runs EXCEPT ![r] =
                 AfterCreateBankAccount(
                    [@ EXCEPT !.log = Append(@, <<"fail", "persist">>)],
                    refreshOk)]
            /\ UNCHANGED <<banks, nextId>>
    /\ UNCHANGED <<authVars, lookup, form>>

LinkStep(r) ==
    \/ Begin(r)
    \/ ExchangeReturns(r)
    \/ AccountsReturns(r)
    \/ ProcessorReturns(r)
    \/ FundingReturns(r)
    \/ CreateDocumentReturns(r)

\* ------------------------------------------------------ authentication
\* results of a server action, as its caller sees them
Pending == <<"pending">>
ReturnsUndefined == <<"undefined">>
ReturnsNull == <<"null">>
Returns(x) == <<"value", x>>
Throws == <<"throws">>

IdleAuth ==
    [ pc |-> "idle", op |-> None, n |-> 0, email |-> None, password |-> None,
      newUserAccount |-> Nothing, dwollaCustomerUrl |-> NoCustomerUrl,
      newUser |-> Nothing, session |-> Nothing, upstream |-> None,
      cookieBefore |-> NoCookie, result |-> Pending,
      account |-> Nothing, user |-> None, calls |-> 0 ]

\* a request of the browser can start when none is in flight
CanRequest == auth.pc \in {"idle", "done"} /\ auth.n < MaxRequests

StartRequest(op, pc, email, password) ==
    [IdleAuth EXCEPT !.pc = pc, !.op = op, !.n = auth.n + 1,
                     !.email = email, !.password = password,
                     !.cookieBefore = cookie]

\* catch (error) { console.error('Error:', error); }  -- resolves undefined
Swallow(rec) == [rec EXCEPT !.pc = "done", !.result = ReturnsUndefined]

\* the identity gateway accepts (email, password) of an existing account
Accepts(email, password) ==
    \E a \in accounts : a.email = email /\ a.password = password

\* the session createEmailPasswordSession issues for (email, password)
NewSession(email, password) ==
    LET a == CHOOSE a \in accounts : a.email = email /\ a.password = password
    IN  [ secret |-> <<"secret", Cardinality(sessions) + 1>>,
          userId |-> a.id, live |-> TRUE ]

\* lib/utils extractCustomerIdFromUrl: the last path segment of the url
extractCustomerIdFromUrl(url) == url[Len(url)]

\* signIn({email, password}): createAdminClient, then
\* account.createEmailPasswordSession(email, password) is awaited.
SignIn ==
    /\ CanRequest
    /\ \E e \in Emails, p \in Passwords :
         auth' = StartRequest("signIn", "signIn_session", e, p)
    /\ UNCHANGED <<linkVars, lookup, form, cookie, accounts, users, sessions>>

\* createEmailPasswordSession returns in signIn.  A rejection is caught.
\* On success the result is bound to `response`; the next statement reads
\* `session.secret`, and no `session` is declared in the module, so it
\* throws ReferenceError before cookies().set is called; the catch block
\* logs it and signIn resolves to undefined.
SignInSessionReturns ==
    /\ auth.pc = "signIn_session"
    /\ \/ /\ auth' = [Swallow(auth) EXCEPT !.upstream = "failed"]
          /\ UNCHANGED sessions
       \/ /\ Accepts(auth.email, auth.password)
          /\ LET response == NewSession(auth.email, auth.password)
             IN  /\ sessions' = sessions \cup {response}
                 /\ auth' = [Swallow(auth) EXCEPT !.upstream = "ok",
                                                  !.session = Some(response)]
    /\ UNCHANGED <<linkVars, lookup, form, cookie, accounts, users>>

\* signUp({password, ...userData}): createAdminClient, then
\* account.create(ID.unique(), email, password, name) is awaited.
SignUp ==
    /\ CanRequest
    /\ \E e \in Emails, p \in Passwords :
         auth' = StartRequest("signUp", "signUp_create", e, p)
    /\ UNCHANGED <<linkVars, lookup, form, cookie, accounts, users, sessions>>

\* account.create returns: it fails (the email is taken, the gateway is
\* down) or resolves to nothing, and signUp resolves to undefined; else
\* createDwollaCustomer({...userData, type: 'personal'}) is awaited.
SignUpCreateReturns ==
    /\ auth.pc = "signUp_create"
    /\ \/ /\ auth' = Swallow(auth)
          /\ UNCHANGED <<accounts, nextId>>
       \/ /\ \A a \in accounts : a.email # auth.email
          /\ LET a == [id |-> nextId, email |-> auth.email,
                       password |-> auth.password]
             IN  /\ accounts' = accounts \cup {a}
                 /\ auth' = [auth EXCEPT !.pc = "signUp_customer",
                                         !.newUserAccount = Some(a)]
          /\ nextId' = nextId + 1
    /\ UNCHANGED <<runs, banks, lookup, form, cookie, users, sessions>>

\* createDwollaCustomer returns: it rejects, or resolves to a url or to no
\* url (`if (!dwollaCustomerUrl) throw`); with a url the customer id is
\* extracted and database.createDocument of the user document is awaited.
SignUpCustomerReturns ==
    /\ auth.pc = "signUp_customer"
    /\ \/ auth' = Swallow(auth)
       \/ \E url \in DwollaCustomerUrls \cup {NoCustomerUrl} :
            auth' = IF url = NoCustomerUrl
                    THEN Swallow(auth)
                    ELSE [auth EXCEPT !.pc = "signUp_document",
                                      !.dwollaCustomerUrl = url]
    /\ UNCHANGED <<linkVars, lookup, form, cookie, accounts, users, sessions>>

\* Faulty variant: the document's userId is its own id, not the account's.
UserDocument_OwnId(rec, id) ==
    [ id |-> id,
      email |-> rec.email,
      userId |-> id,
      dwollaCustomerId |-> extractCustomerIdFromUrl(rec.dwollaCustomerUrl),
      dwollaCustomerUrl |-> rec.dwollaCustomerUrl ]

\* The user document signUp hands to database.createDocument.
UserDocument(rec, id) ==
    [ id |-> id,
      email |-> rec.email,
      userId |-> rec.newUserAccount[1].id,
      dwollaCustomerId |-> extractCustomerIdFromUrl(rec.dwollaCustomerUrl),
      dwollaCustomerUrl |-> rec.dwollaCustomerUrl ]

\* database.createDocument returns in signUp: a failure is caught; else
\* account.createEmailPasswordSession(email, password) is awaited.
SignUpDocumentReturns ==
    /\ auth.pc = "signUp_document"
    /\ \/ /\ auth' = Swallow(auth)
          /\ UNCHANGED <<users, nextId>>
       \/ /\ LET doc == UserDocument(auth, nextId)
             IN  /\ users' = users \cup {doc}
                 /\ auth' = [auth EXCEPT !.pc = "signUp_session",
                                         !.newUser = Some(doc)]
          /\ nextId' = nextId + 1
    /\ UNCHANGED <<runs, banks, lookup, form, cookie, accounts, sessions>>

\* Faulty variant: the cookie is written although the session was not created.
SignUpSessionReturns_AlwaysSets ==
    /\ auth.pc = "signUp_session"
    /\ \/ /\ auth' = [Swallow(auth) EXCEPT !.upstream = "failed"]
          /\ cookie' = <<"secret", 0>>
          /\ UNCHANGED sessions
       \/ /\ Accepts(auth.email, auth.password)
          /\ LET session == NewSession(auth.email, auth.password)
             IN  /\ sessions' = sessions \cup {session}
                 /\ cookie' = session.secret
                 /\ auth' = [auth EXCEPT !.pc = "done", !.upstream = "ok",
                                         !.session = Some(session),
                                         !.result = Returns(auth.newUser[1])]
    /\ UNCHANGED <<linkVars, lookup, form, accounts, users>>

\* createEmailPasswordSession returns in signUp: a failure is caught; else
\* cookies().set("appwrite-session", session.secret, ...) and the new user
\* document is returned.
SignUpSessionReturns ==
    /\ auth.pc = "signUp_session"
    /\ \/ /\ auth' = [Swallow(auth) EXCEPT !.upstream = "failed"]
          /\ UNCHANGED <<sessions, cookie>>
       \/ /\ Accepts(auth.email, auth.password)
          /\ LET session == NewSession(auth.email, auth.password)
             IN  /\ sessions' = sessions \cup {session}
                 /\ cookie' = session.secret
                 /\ auth' = [auth EXCEPT !.pc = "done", !.upstream = "ok",
                                         !.session = Some(session),
                                         !.result = Returns(auth.newUser[1])]
    /\ UNCHANGED <<linkVars, lookup, form, accounts, users>>

\* lib/appwrite createSessionClient: it reads the 'appwrite-session' cookie
\* and throws when there is none.
CreateSessionClientThrows == cookie = NoCookie

\* Faulty variant: the cookie is not deleted before the upstream call.
Logout_KeepsCookie ==
    /\ CanRequest
    /\ LET rec == StartRequest("logout", "logout_deleteSession", None, None)
       IN  IF cookie = NoCookie
           THEN auth' = [rec EXCEPT !.pc = "done", !.result = ReturnsNull]
           ELSE auth' = rec
    /\ UNCHANGED <<linkVars, lookup, form, cookie, accounts, users, sessions>>

\* logoutAccount(): createSessionClient; cookies().delete('appwrite-session');
\* then account.deleteSession('current') is awaited.  Without a session the
\* client cannot be built and the catch block returns null.
Logout ==
    /\ CanRequest
    /\ LET rec == StartRequest("logout", "logout_deleteSession", None, None)
       IN  IF CreateSessionClientThrows
           THEN /\ auth' = [rec EXCEPT !.pc = "done", !.result = ReturnsNull]
                /\ UNCHANGED cookie
           ELSE /\ auth' = rec
                /\ cookie' = NoCookie
    /\ UNCHANGED <<linkVars, lookup, form, accounts, users, sessions>>

\* account.deleteSession('current') returns: logoutAccount resolves to
\* undefined, or the failure is caught and it resolves to null.
LogoutDeleteSessionReturns ==
    /\ auth.pc = "logout_deleteSession"
    /\ \/ /\ sessions' = { IF s.secret = auth.cookieBefore
                           THEN [s EXCEPT !.live = FALSE] ELSE s
                           : s \in sessions }
          /\ auth' = [auth EXCEPT !.pc = "done", !.upstream = "ok",
                                  !.result = ReturnsUndefined]
       \/ /\ auth' = [auth EXCEPT !.pc = "done", !.upstream = "failed",
                                  !.result = ReturnsNull]
          /\ UNCHANGED sessions
    /\ UNCHANGED <<linkVars, lookup, form, cookie, accounts, users>>

\* lib/utils parseStringify(value) = JSON.parse(JSON.stringify(value)): a
\* document comes back as it is; for undefined JSON.stringify yields
\* undefined, which JSON.parse rejects with a SyntaxError.
ParseStringifyThrows(v) == v = Nothing
parseStringify(v) == v

\* getUserInfo({userId}): listDocuments of the user collection with
\* Query.equal('userId', [userId]) and parseStringify(documents[0]); a
\* failed listing, and the SyntaxError for an empty result, are caught and
\* logged, and getUserInfo resolves to undefined.
getUserInfo(userId, listed) ==
    LET documents == { u \in users : u.userId = userId }
        first == IF documents = {} THEN Nothing
                 ELSE Some(CHOOSE u \in documents : TRUE)
    IN  IF ~listed \/ ParseStringifyThrows(first)
        THEN Nothing
        ELSE parseStringify(first)

\* getLoggedInUser(): createSessionClient, then account.get() is awaited;
\* without a session cookie the client cannot be built and the catch
\* block returns null.
GetLoggedInUser ==
    /\ CanRequest
    /\ LET rec == StartRequest("getLoggedInUser", "getLoggedInUser_get",
                               None, None)
       IN  auth' = IF CreateSessionClientThrows
                   THEN [rec EXCEPT !.pc = "done", !.result = ReturnsNull]
                   ELSE rec
    /\ UNCHANGED <<linkVars, lookup, form, cookie, accounts, users, sessions>>

\* Faulty variant: the catch block of getLoggedInUser rethrows.
AccountGetReturns_Rethrows ==
    /\ auth.pc = "getLoggedInUser_get"
    /\ \/ auth' = [auth EXCEPT !.pc = "done", !.upstream = "failed",
                                !.result = Throws]
       \/ \E s \in sessions, a \in accounts :
            /\ s.secret = auth.cookieBefore /\ s.live /\ a.id = s.userId
            /\ auth' = [auth EXCEPT !.pc = "getLoggedInUser_userInfo",
                                    !.account = Some(a)]
    /\ UNCHANGED <<linkVars, lookup, form, cookie, accounts, users, sessions>>

\* account.get() returns: for a session the gateway does not accept (or a
\* gateway that is down) it rejects and the catch block returns null; else
\* getUserInfo({userId: result.$id}) is awaited.
AccountGetReturns ==
    /\ auth.pc = "getLoggedInUser_get"
    /\ \/ auth' = [auth EXCEPT !.pc = "done", !.upstream = "failed",
                                !.result = ReturnsNull]
       \/ \E s \in sessions, a \in accounts :
            /\ s.secret = auth.cookieBefore /\ s.live /\ a.id = s.userId
            /\ auth' = [auth EXCEPT !.pc = "getLoggedInUser_userInfo",
                                    !.account = Some(a)]
    /\ UNCHANGED <<linkVars, lookup, form, cookie, accounts, users, sessions>>

\* getUserInfo returns in getLoggedInUser: parseStringify(user) is
\* returned; for an undefined user it throws and the catch block returns
\* null.
UserInfoReturns ==
    /\ auth.pc = "getLoggedInUser_userInfo"
    /\ \E listed \in BOOLEAN :
         LET user == getUserInfo(auth.account[1].id, listed)
         IN  auth' = [auth EXCEPT
                !.pc = "done",
                !.upstream = IF listed THEN "ok" ELSE "failed",
                !.result = IF ParseStringifyThrows(user)
                           THEN ReturnsNull
                           ELSE Returns(parseStringify(user)[1])]
    /\ UNCHANGED <<linkVars, lookup, form, cookie, accounts, users, sessions>>

LinkTokens == {"link-sandbox-1"}

\* createLinkToken(user): the token parameters are built and
\* plaidClient.linkTokenCreate(tokenParams) is awaited.
CreateLinkToken ==
    /\ CanRequest
    /\ \E u \in Users :
         auth' = [StartRequest("createLinkToken", "createLinkToken_request",
                               None, None)
                    EXCEPT !.user = u, !.calls = 1]
    /\ UNCHANGED <<linkVars, lookup, form, cookie, accounts, users, sessions>>

\* Faulty variant: the catch block only logs, and createLinkToken resolves
\* to undefined.
LinkTokenCreateReturns_Swallows ==
    /\ auth.pc = "createLinkToken_request"
    /\ \/ auth' = [auth EXCEPT !.pc = "done", !.upstream = "failed",
                                !.result = ReturnsUndefined]
       \/ \E t \in LinkTokens :
            auth' = [auth EXCEPT !.pc = "done", !.upstream = "ok",
                                 !.result = Returns([linkToken |-> t])]
    /\ UNCHANGED <<linkVars, lookup, form, cookie, accounts, users, sessions>>

\* linkTokenCreate returns: {linkToken: response.data.link_token} is
\* returned; a failure is logged and rethrown to the caller.
LinkTokenCreateReturns ==
    /\ auth.pc = "createLinkToken_request"
    /\ \/ auth' = [auth EXCEPT !.pc = "done", !.upstream = "failed",
                                !.result = Throws]
       \/ \E t \in LinkTokens :
            auth' = [auth EXCEPT !.pc = "done", !.upstream = "ok",
                                 !.result = Returns([linkToken |-> t])]
    /\ UNCHANGED <<linkVars, lookup, form, cookie, accounts, users, sessions>>

AuthNext ==
    \/ SignIn
    \/ SignInSessionReturns
    \/ SignUp
    \/ SignUpCreateReturns
    \/ SignUpCustomerReturns
    \/ SignUpDocumentReturns
    \/ SignUpSessionReturns
    \/ Logout
    \/ LogoutDeleteSessionReturns
    \/ GetLoggedInUser
    \/ AccountGetReturns
    \/ UserInfoReturns
    \/ CreateLinkToken
    \/ LinkTokenCreateReturns

\* ------------------------------------------------- bank collection queries
NoDocumentId == 0

IdleLookup ==
    [ op |-> None, userId |-> None, documentId |-> NoDocumentId,
      accountId |-> None, listed |-> FALSE, result |-> Pending ]

\* the first document of a listing, undefined for an empty one
FirstDocument(documents) ==
    IF documents = {} THEN Nothing ELSE Some(CHOOSE d \in documents : TRUE)

\* the value a query returns for `return parseStringify(v)` inside its try
\* block: a SyntaxError for undefined is caught and logged, and the query
\* resolves to undefined
ReturnParsed(v) ==
    IF ParseStringifyThrows(v)
    THEN ReturnsUndefined
    ELSE Returns(parseStringify(v)[1])

\* getBanks({userId}): listDocuments of the bank collection with
\* Query.equal('userId', [userId]); the documents are returned, a failed
\* listing is logged and getBanks resolves to undefined.
GetBanks ==
    /\ \E u \in Users, listed \in BOOLEAN :
         LET documents == { d \in banks : d.userId = u }
         IN  lookup' = [IdleLookup EXCEPT
                !.op = "getBanks", !.userId = u, !.listed = listed,
                !.result = IF listed
                           THEN <<"value", "documents", documents>>
                           ELSE ReturnsUndefined]
    /\ UNCHANGED <<linkVars, authVars, form>>

\* getBank({documentId}): listDocuments with Query.equal('$id',
\* [documentId]) and parseStringify(bank.documents[0]).
GetBank ==
    /\ \E id \in 1..nextId, listed \in BOOLEAN :
         LET documents == { d \in banks : d.id = id }
         IN  lookup' = [IdleLookup EXCEPT
                !.op = "getBank", !.documentId = id, !.listed = listed,
                !.result = IF listed
                           THEN ReturnParsed(FirstDocument(documents))
                           ELSE ReturnsUndefined]
    /\ UNCHANGED <<linkVars, authVars, form>>

\* Faulty variant: the first match is returned whenever there is one.
GetBankByAccountId_FirstMatch ==
    /\ \E a \in { p.account_id : p \in PlaidAccounts }, listed \in BOOLEAN :
         LET documents == { d \in banks : d.accountId = a }
             total == Cardinality(documents)
         IN  lookup' = [IdleLookup EXCEPT
                !.op = "getBankByAccountId", !.accountId = a,
                !.listed = listed,
                !.result = IF ~listed THEN ReturnsUndefined
                           ELSE IF total < 1 THEN ReturnsNull
                           ELSE ReturnParsed(FirstDocument(documents))]
    /\ UNCHANGED <<linkVars, authVars, form>>

\* getBankByAccountId({accountId}): listDocuments with
\* Query.equal('accountId', [accountId]); `if (bank.total !== 1) return
\* null`, else parseStringify(bank.documents[0]); a failed listing is
\* logged and the function resolves to undefined.
GetBankByAccountId ==
    /\ \E a \in { p.account_id : p \in PlaidAccounts }, listed \in BOOLEAN :
         LET documents == { d \in banks : d.accountId = a }
             total == Cardinality(documents)
         IN  lookup' = [IdleLookup EXCEPT
                !.op = "getBankByAccountId", !.accountId = a,
                !.listed = listed,
                !.result = IF ~listed THEN ReturnsUndefined
                           ELSE IF total # 1 THEN ReturnsNull
                           ELSE ReturnParsed(FirstDocument(documents))]
    /\ UNCHANGED <<linkVars, authVars, form>>

LookupNext ==
    \/ GetBanks
    \/ GetBank
    \/ GetBankByAccountId

\* ------------------------------------------------------------ AuthForm
FormTypes == {"sign-in", "sign-up"}

\* Before the page is rendered there is no component.
Unmounted ==
    [ pc |-> "unmounted", type |-> None, isLoading |-> FALSE,
      user |-> Nothing, navigated |-> FALSE, outcome |-> None ]

\* AuthForm({type}) is rendered: useState(null) for user, useState(false)
\* for isLoading.
Mount ==
    /\ form.pc = "unmounted"
    /\ \E t \in FormTypes :
         form' = [Unmounted EXCEPT !.pc = "idle", !.type = t]
    /\ UNCHANGED <<linkVars, authVars, lookup>>

\* The footer link of the credentials view leads to the page of the other
\* type ('/sign-up' from sign-in, '/sign-in' from sign-up), where AuthForm
\* is rendered anew.
SwitchPage ==
    /\ form.pc = "idle"
    /\ form.user = Nothing
    /\ ~form.navigated
    /\ \E t \in FormTypes \ {form.type} :
         form' = [Unmounted EXCEPT !.pc = "idle", !.type = t]
    /\ UNCHANGED <<linkVars, authVars, lookup>>

\* The credentials form is rendered when `user` is falsy, and its submit
\* button carries disabled={isLoading}.
CanSubmit ==
    /\ form.pc = "idle"
    /\ form.user = Nothing
    /\ ~form.navigated
    /\ ~form.isLoading

\* a truthy return value of a server action
Truthy(result) == result[1] = "value"

\* Faulty variant: onSubmit does not set isLoading before the call.
Submit_NoLoading ==
    /\ CanSubmit
    /\ CanRequest
    /\ \E e \in Emails, p \in Passwords :
         auth' = IF form.type = "sign-up"
                 THEN StartRequest("signUp", "signUp_create", e, p)
                 ELSE StartRequest("signIn", "signIn_session", e, p)
    /\ form' = [form EXCEPT !.pc = "awaiting", !.outcome = None]
    /\ UNCHANGED <<linkVars, lookup, cookie, accounts, users, sessions>>

\* onSubmit(data) up to its await: setIsLoading(true), then signUp(data)
\* for type 'sign-up' and signIn({email, password}) for type 'sign-in' is
\* called and awaited.
Submit ==
    /\ CanSubmit
    /\ CanRequest
    /\ \E e \in Emails, p \in Passwords :
         auth' = IF form.type = "sign-up"
                 THEN StartRequest("signUp", "signUp_create", e, p)
                 ELSE StartRequest("signIn", "signIn_session", e, p)
    /\ form' = [form EXCEPT !.pc = "awaiting", !.isLoading = TRUE,
                            !.outcome = None]
    /\ UNCHANGED <<linkVars, lookup, cookie, accounts, users, sessions>>

\* The rest of onSubmit after the awaited server action delivered `result`
\* (thrown = FALSE) or the call rejected (thrown = TRUE, the catch block
\* logs): setUser(newUser) in sign-up mode, router.push('/') for a truthy
\* response in sign-in mode, and setIsLoading(false) in the finally block.
AfterAction(f, result, thrown) ==
    [f EXCEPT
        !.pc = "idle",
        !.outcome = IF thrown THEN "thrown"
                    ELSE IF Truthy(result) THEN "value" ELSE "undefined",
        !.user = IF ~thrown /\ f.type = "sign-up"
                 THEN (IF Truthy(result) THEN Some(result[2]) ELSE Nothing)
                 ELSE f.user,
        !.navigated = IF ~thrown /\ f.type = "sign-in" /\ Truthy(result)
                      THEN TRUE
                      ELSE f.navigated,
        !.isLoading = FALSE]

\* Faulty variant: there is no finally block, so a rejected call leaves
\* isLoading set.
ActionReturns_NoFinally ==
    /\ form.pc = "awaiting"
    /\ auth.pc = "done"
    /\ \E thrown \in BOOLEAN :
         form' = [AfterAction(form, auth.result, thrown)
                     EXCEPT !.isLoading = thrown]
    /\ UNCHANGED <<linkVars, authVars, lookup>>

\* Faulty variant: sign-in mode navigates whatever signIn returned.
ActionReturns_AlwaysNavigates ==
    /\ form.pc = "awaiting"
    /\ auth.pc = "done"
    /\ \E thrown \in BOOLEAN :
         form' = [AfterAction(form, auth.result, thrown)
                     EXCEPT !.navigated = (form.type = "sign-in")]
    /\ UNCHANGED <<linkVars, authVars, lookup>>

\* The awaited server action settles: its return value reaches onSubmit, or
\* the call rejects (the response of the action is lost on the way).
ActionReturns ==
    /\ form.pc = "awaiting"
    /\ auth.pc = "done"
    /\ \E thrown \in BOOLEAN :
         form' = AfterAction(form, auth.result, thrown)
    /\ UNCHANGED <<linkVars, authVars, lookup>>

\* the steps in which a call awaited by signIn or signUp returns
ServerActionReturns ==
    \/ SignInSessionReturns
    \/ SignUpCreateReturns
    \/ SignUpCustomerReturns
    \/ SignUpDocumentReturns
    \/ SignUpSessionReturns

FormNext ==
    \/ Mount
    \/ SwitchPage
    \/ Submit
    \/ ActionReturns
    \/ ServerActionReturns

LinkInit ==
    /\ runs = [r \in Runs |-> IdleRun]
    /\ banks = {}
    /\ nextId = 1

AuthInit ==
    /\ cookie = NoCookie
    /\ accounts = {}
    /\ users = {}
    /\ sessions = {}
    /\ auth = IdleAuth

Init == LinkInit /\ AuthInit /\ lookup = IdleLookup /\ form = Unmounted

LinkNext == \E r \in Runs : LinkStep(r)

\* The operations started so far: linking runs, authentication requests,
\* and the queries of the bank collection (which keep no state of their
\* own and count once).
OpsStarted ==
    Cardinality({ r \in Runs : runs[r].pc # "idle" }) + auth.n
        + (IF lookup.op = None THEN 0 ELSE 1)
WithinBudget == OpsStarted' <= MaxOps

Next ==
    \/ LinkNext /\ WithinBudget
    \/ AuthNext /\ WithinBudget
    \/ LookupNext /\ WithinBudget

\* The linking workflow alone (the authentication request stays idle).
LinkSpec == Init /\ [][LinkNext]_vars

\* A call a run awaits returns or fails in the end: the step that handles
\* the return of the call run r is suspended on is taken eventually.
CallReturns(r) ==
    \/ ExchangeReturns(r)
    \/ AccountsReturns(r)
    \/ ProcessorReturns(r)
    \/ FundingReturns(r)
    \/ CreateDocumentReturns(r)

LinkFairSpec == LinkSpec /\ \A r \in Runs : WF_vars(CallReturns(r))

\* The linking workflow and getBankByAccountId.
LookupSpec == Init /\ [][LinkNext \/ GetBankByAccountId]_vars

\* The authentication requests alone (no linking run is started).
AuthSpec == Init /\ [][AuthNext]_vars

\* Every operation of the module, MaxOps of them in one behaviour.
Spec == Init /\ [][Next]_vars

\* The AuthForm of one browser and the server actions it calls.
FormSpec == Init /\ [][FormNext]_vars

\* An awaited call returns or fails in the end, and the continuation of
\* onSubmit runs once the server action has settled.
FormFairSpec ==
    FormSpec /\ WF_vars(ServerActionReturns) /\ WF_vars(ActionReturns)

\* ------------------------------------------------- properties: linking
Has(rec, ev) == \E i \in DOMAIN rec.log : rec.log[i] = ev
Count(rec, ev) == Cardinality({ i \in DOMAIN rec.log : rec.log[i] = ev })
Failed(rec) == \E i \in DOMAIN rec.log : rec.log[i][1] = "fail"
\* event a is logged, and event b is logged later
Before(rec, a, b) ==
    \E i \in DOMAIN rec.log :
        /\ rec.log[i] = a
        /\ \E j \in (i + 1)..Len(rec.log) : rec.log[j] = b
\* a call is logged after a failure
CallsAfterFailure(rec) ==
    { rec.log[j][2] : j \in
        { j \in DOMAIN rec.log :
            /\ rec.log[j][1] = "call"
            /\ \E i \in 1..(j - 1) : rec.log[i][1] = "fail" } }
\* the Bank Account Links run r persisted
LinksOf(r) == { d \in banks : d.id \in runs[r].docs }
\* the external calls of the workflow that reach a vendor or the database
ExternalCalls == {"exchange", "accounts", "processor", "funding", "persist"}

\* C1: a run of exchangePublicToken in which every call succeeded (the
\* account list was not empty, the funding source has a url, the document
\* was written, the path was refreshed) has persisted exactly one Bank
\* Account Link and has returned the completion marker.
C1_AllSucceedOneLink ==
    \A r \in Runs :
        (runs[r].pc = "done" /\ ~Failed(runs[r]))
            => /\ Cardinality(LinksOf(r)) = 1
               /\ runs[r].result = "complete"

C1_Witness ==
    \E r \in Runs :
        /\ runs[r].pc = "done" /\ ~Failed(runs[r])
        /\ Has(runs[r], <<"ok", "refresh">>)
        /\ Cardinality(LinksOf(r)) = 1
        /\ runs[r].result = "complete"

\* C2: every persisted Bank Account Link was written by a run whose token
\* exchange and funding-source creation had both succeeded before the write
\* was requested, and a run whose funding source came back without a url
\* has persisted no link.
C2_LinkOnlyAfterExchangeAndFunding ==
    /\ \A d \in banks :
         \E r \in Runs :
            /\ d.id \in runs[r].docs
            /\ Before(runs[r], <<"ok", "exchange">>, <<"call", "persist">>)
            /\ Before(runs[r], <<"ok", "funding">>, <<"call", "persist">>)
            /\ runs[r].fundingSourceUrl \in FundingUrls
            /\ d.fundingSourceUrl = runs[r].fundingSourceUrl
    /\ \A r \in Runs :
         runs[r].fundingSourceUrl = NoUrl => LinksOf(r) = {}

C2_Witness ==
    \E r, q \in Runs :
        /\ runs[r].pc = "done" /\ runs[r].fundingSourceUrl = NoUrl
        /\ LinksOf(r) = {}
        /\ LinksOf(q) # {}

\* C3: in exchangePublicToken a failure of any step aborts the remaining
\* steps and surfaces an error: after a failed step (a failed document
\* write inside createBankAccount included) the run makes no further call,
\* signals no refresh, and ends with an error instead of the marker.
C3_FailureAbortsAndSurfaces ==
    \A r \in Runs :
        /\ CallsAfterFailure(runs[r]) = {}
        /\ (runs[r].pc = "done" /\ Failed(runs[r]))
                => runs[r].result = "error"

\* C4: when funding-source creation or a later step (link persistence,
\* refresh signal, return of the marker) fails, no Bank Account Link
\* written by that run exists when the run ends.
C4_LateFailureLeavesNoLink ==
    \A r \in Runs :
        ( /\ runs[r].pc = "done"
          /\ \E s \in {"funding", "persist", "refresh", "return"} :
                Has(runs[r], <<"fail", s>>) )
            => LinksOf(r) = {}

\* C5: when accountsGet returns an empty list the run aborts before any
\* payment-rail call: addFundingSource is never called in that run, no link
\* is persisted by it, and it ends with an error.
C5_EmptyListAbortsBeforePaymentRail ==
    \A r \in Runs :
        Has(runs[r], <<"empty", "accounts">>)
            => /\ ~Has(runs[r], <<"call", "funding">>)
               /\ LinksOf(r) = {}
               /\ runs[r].pc = "done" /\ runs[r].result = "error"

C5_Witness ==
    \E r \in Runs :
        /\ Has(runs[r], <<"empty", "accounts">>)
        /\ runs[r].pc = "done"
        /\ Has(runs[r], <<"ok", "exchange">>)

\* C6: within one run the steps occur in the order exchange, accounts,
\* processor, funding, persist, refresh, return: a step's call is made only
\* after every earlier step has returned, and returned successfully.
C6_StrictlySequential ==
    \A r \in Runs :
        \A i \in DOMAIN runs[r].log :
            runs[r].log[i][1] = "call" =>
                \A n \in 1..(StepNo(runs[r].log[i][2]) - 1) :
                    \E j \in 1..(i - 1) : runs[r].log[j] = <<"ok", Steps[n]>>

FirstFetched(rec) ==
    LET i == CHOOSE i \in DOMAIN rec.log : rec.log[i][1] = "first"
    IN  rec.log[i][2]
\* the run that wrote document d
WriterOf(d) == CHOOSE r \in Runs : d.id \in runs[r].docs

\* C11: a persisted Bank Account Link combines exactly the values of the
\* run that wrote it: userId is the calling user, bankId the item id and
\* accessToken the access token the exchange returned for the run's public
\* token, accountId the id of the first account of the fetched list,
\* fundingSourceUrl the url funding-source creation returned, shareableId
\* the derived id of that same account id.
C11_LinkCombinesRunValues ==
    \A d \in banks :
        /\ \E r \in Runs : d.id \in runs[r].docs
        /\ LET rec == runs[WriterOf(d)]
               resp == ExchangeResponseFor(rec.publicToken)
           IN  /\ d.userId = rec.user
               /\ d.bankId = resp.item_id
               /\ d.accessToken = resp.access_token
               /\ Has(rec, <<"first", d.accountId>>)
               /\ d.accountId = FirstFetched(rec)
               /\ d.fundingSourceUrl = rec.fundingSourceUrl
               /\ d.fundingSourceUrl \in FundingUrls
               /\ d.shareableId = encryptId(FirstFetched(rec))

C11_Witness ==
    \E d \in banks :
        /\ d.userId = "user-2" /\ d.bankId = "item-2"
        /\ d.accountId = "acc-2" /\ d.accessToken = "access-def"
        /\ d.fundingSourceUrl = "https://rail/funding/1"
        /\ runs[WriterOf(d)].result = "complete"

\* C13: when the runs of several users interleave no state crosses between
\* them: every persisted Bank Account Link combines the userId, item id,
\* account id, access token and funding-source url of one single run, the
\* run that wrote it, and a run writes at most one link.
C13_NoCrossRunState ==
    /\ \A d \in banks :
         \E r \in Runs :
            /\ d.id \in runs[r].docs
            /\ d.userId = runs[r].user
            /\ d.bankId = runs[r].itemId
            /\ d.accountId = runs[r].accountData.account_id
            /\ d.accessToken = runs[r].accessToken
            /\ d.fundingSourceUrl = runs[r].fundingSourceUrl
    /\ \A r \in Runs : Cardinality(runs[r].docs) <= 1
    /\ \A r, q \in Runs : r # q => runs[r].docs \cap runs[q].docs = {}

\* two runs of different users overlapped: the run started second wrote
\* its link first, with another account than the other run's
C13_Witness ==
    \E r, q \in Runs, d, c \in banks :
        /\ r < q
        /\ d.id \in runs[r].docs /\ c.id \in runs[q].docs
        /\ c.id < d.id
        /\ d.userId # c.userId /\ d.accountId # c.accountId

\* the run ended at its first failure: nothing is logged after it
StoppedAtFirstFailure(rec) ==
    \A i \in DOMAIN rec.log : rec.log[i][1] = "fail" => i = Len(rec.log)

\* C14 (liveness part): provided every awaited call returns or fails, a
\* started run ends.
C14_StartedRunEnds ==
    \A r \in Runs : (runs[r].pc # "idle") ~> (runs[r].pc = "done")

\* C14: a started run is never cancelled and always ends: provided every
\* external call returns or fails, the run reaches the completion marker or
\* its first failure, and it stops at the first failure.
C14_EndsAtMarkerOrFirstFailure ==
    /\ \A r \in Runs : (runs[r].pc # "idle") ~> (runs[r].pc = "done")
    /\ [](\A r \in Runs :
            runs[r].pc = "done" =>
                /\ StoppedAtFirstFailure(runs[r])
                /\ \/ runs[r].result = "complete" /\ ~Failed(runs[r])
                   \/ runs[r].result = "error" /\ Failed(runs[r]))

AuthFailed == auth.pc = "done" /\ auth.result = ReturnsUndefined

\* C8: the 'appwrite-session' cookie is set only on a successful sign-in or
\* sign-up: whenever the cookie gets a value, the request writing it is a
\* signIn or signUp whose session-creation call returned successfully, and
\* the value is that session's secret; and a signIn or signUp that failed
\* has left the cookie as it was when the request started.
C8_CookieSetOnlyOnSuccess ==
    /\ [](( /\ auth.op \in {"signIn", "signUp"} /\ AuthFailed )
            => cookie = auth.cookieBefore)
    /\ [][ (cookie' # cookie /\ cookie' # NoCookie)
             => /\ auth'.op \in {"signIn", "signUp"}
                /\ auth'.upstream = "ok"
                /\ auth'.session # Nothing
                /\ auth'.session[1] \in sessions'
                /\ cookie' = auth'.session[1].secret ]_vars

C8_Witness ==
    /\ auth.op = "signIn" /\ AuthFailed
    /\ cookie # NoCookie
    /\ cookie = auth.cookieBefore

\* C9: whenever signIn is called with credentials the identity gateway
\* accepts (the session is created), the run ends with the cookie holding
\* the secret of that session and with the user's profile returned.
C9_SignInCreatesSession ==
    ( /\ auth.pc = "done" /\ auth.op = "signIn" /\ auth.upstream = "ok" )
        => /\ cookie = auth.session[1].secret
           /\ \E u \in users :
                /\ u.userId = auth.session[1].userId
                /\ auth.result = Returns(u)

\* the user document of the account the browser's session belongs to
LoggedInUserDocuments ==
    { u \in users : \E s \in sessions :
        s.secret = auth.cookieBefore /\ s.live /\ s.userId = u.userId }

\* C17: getLoggedInUser returns the logged-in user's data when a valid
\* session exists and every lookup succeeds, and returns null without
\* throwing when there is no session or any call fails, a failed or empty
\* user-document lookup in getUserInfo included.
C17_LoggedInUserOrNull ==
    ( auth.pc = "done" /\ auth.op = "getLoggedInUser" )
        => /\ auth.result # Throws
           /\ IF /\ auth.cookieBefore # NoCookie
                 /\ auth.upstream = "ok"
                 /\ LoggedInUserDocuments # {}
              THEN \E u \in LoggedInUserDocuments : auth.result = Returns(u)
              ELSE auth.result = ReturnsNull

C17_Witness ==
    /\ auth.pc = "done" /\ auth.op = "getLoggedInUser"
    /\ auth.cookieBefore # NoCookie
    /\ auth.upstream = "ok"
    /\ \E u \in LoggedInUserDocuments : auth.result = Returns(u)

\* a failed user-document lookup is turned into null as well
C17_WitnessLookupFailed ==
    /\ auth.pc = "done" /\ auth.op = "getLoggedInUser"
    /\ auth.account # Nothing
    /\ auth.upstream = "failed"
    /\ auth.result = ReturnsNull

FailedAtCustomerCreation ==
    /\ auth.pc = "done" /\ auth.op = "signUp"
    /\ auth.newUserAccount # Nothing
    /\ auth.dwollaCustomerUrl = NoCustomerUrl

\* C19: signUp writes the User document only after the identity account
\* was created and customer creation returned a non-empty url, and sets the
\* session cookie only after the User document was written: every User
\* document carries the id of the account created in the same run and a
\* non-empty dwollaCustomerUrl, and a run that fails at customer creation
\* writes no User document and sets no cookie.
C19_SignUpOrder ==
    /\ [](\A u \in users :
            /\ \E a \in accounts : a.id = u.userId /\ a.email = u.email
            /\ u.dwollaCustomerUrl # NoCustomerUrl)
    /\ [](FailedAtCustomerCreation =>
            /\ \A u \in users : u.userId # auth.newUserAccount[1].id
            /\ cookie = auth.cookieBefore)
    /\ [][ /\ \A u \in users' \ users :
               /\ auth.op = "signUp"
               /\ auth.newUserAccount # Nothing
               /\ u.userId = auth.newUserAccount[1].id
               /\ auth.dwollaCustomerUrl # NoCustomerUrl
               /\ u.dwollaCustomerUrl = auth.dwollaCustomerUrl
           /\ ( auth.op = "signUp" /\ cookie' # cookie /\ cookie' # NoCookie )
                => ( auth.newUser # Nothing /\ auth.newUser[1] \in users )
         ]_vars

\* a sign-up that wrote its document and set the cookie, followed by one
\* that failed at customer creation
C19_Witness ==
    /\ FailedAtCustomerCreation
    /\ users # {}
    /\ cookie # NoCookie
    /\ \E a \in accounts : a.id = auth.newUserAccount[1].id

\* the persisted links with the account id of the latest lookup
Matches == { d \in banks : d.accountId = lookup.accountId }

\* C20: getBankByAccountId returns a link only when exactly one persisted
\* Bank Account Link has the given accountId (and then that link), and
\* returns null when none or more than one match; nothing deduplicates, so
\* after two successful linking runs that selected the same account id the
\* lookup for that account id returns null. (Links are never removed, so
\* the matches of a lookup only grow after it: the lookup is judged at the
\* step that performs it.)
C20_LookupExactlyOne ==
    [][ ( lookup' # lookup /\ lookup'.op = "getBankByAccountId" ) =>
          LET documents == { d \in banks : d.accountId = lookup'.accountId }
              result == lookup'.result
          IN  /\ result[1] = "value" =>
                    /\ Cardinality(documents) = 1
                    /\ \E d \in documents : result = Returns(d)
              /\ ( lookup'.listed /\ Cardinality(documents) # 1 )
                    => result = ReturnsNull
              /\ ( \E r1, r2 \in Runs :
                      /\ r1 # r2
                      /\ LinksOf(r1) # {} /\ LinksOf(r2) # {}
                      /\ \A d \in LinksOf(r1) \cup LinksOf(r2) :
                            d.accountId = lookup'.accountId )
                    => result \in {ReturnsNull, ReturnsUndefined}
      ]_vars

\* two runs linked the same account id and the lookup for it returned null
C20_Witness ==
    /\ lookup.op = "getBankByAccountId"
    /\ lookup.listed
    /\ lookup.result = ReturnsNull
    /\ \E r1, r2 \in Runs :
         /\ r1 # r2
         /\ \E d1 \in LinksOf(r1), d2 \in LinksOf(r2) :
              /\ d1.accountId = lookup.accountId
              /\ d2.accountId = lookup.accountId

\* C12: persisted records are never mutated: no operation updates or
\* deletes an existing Bank Account Link or User document; across signUp,
\* signIn, logoutAccount, getLoggedInUser, createLinkToken,
\* exchangePublicToken and the queries a record once written stays as it
\* is (no second record takes its id) and the sets of records only grow.
C12_RecordsNeverMutated ==
    /\ [](\A d, c \in banks : d.id = c.id => d = c)
    /\ [](\A u, v \in users : u.id = v.id => u = v)
    /\ [][ /\ \A d \in banks : d \in banks'
           /\ \A u \in users : u \in users'
         ]_vars

\* a second link of an account id was written, or a link was written
\* beside a user document, and the earlier record is still there
C12_Witness ==
    \/ \E d, c \in banks : d # c /\ d.accountId = c.accountId
    \/ banks # {} /\ users # {}

\* C21: in AuthForm every submission sets isLoading before signUp or
\* signIn is called, and isLoading is reset in the end whatever the outcome
\* (a value, undefined, or a thrown error); a submission starts only while
\* the button is enabled (isLoading false), and isLoading is false whenever
\* no submission is in flight.
C21_LoadingFlag ==
    /\ [][ auth'.n > auth.n => ( ~form.isLoading /\ form'.isLoading ) ]_vars
    /\ [](form.pc # "awaiting" => ~form.isLoading)
    /\ (form.isLoading ~> ~form.isLoading)

\* a submission whose server action call threw has been reset
C21_Witness ==
    /\ form.pc = "idle"
    /\ form.outcome = "thrown"
    /\ ~form.isLoading

\* C22: AuthForm advances only on a successful server action: it navigates
\* to '/' only in sign-in mode when signIn returned a truthy response, and
\* it switches to the Link Account view (user set) only in sign-up mode
\* when signUp returned that user; after a failed signIn or signUp the form
\* stays on the credentials view with no navigation.
C22_AdvancesOnlyOnSuccess ==
    [][ /\ ( form'.navigated /\ ~form.navigated ) =>
              /\ form.type = "sign-in"
              /\ auth.op = "signIn" /\ auth.pc = "done"
              /\ Truthy(auth.result)
              /\ form'.outcome = "value"
        /\ ( form'.user # Nothing /\ form.user = Nothing ) =>
              /\ form.type = "sign-up"
              /\ auth.op = "signUp" /\ auth.pc = "done"
              /\ auth.result = Returns(form'.user[1])
              /\ form'.user[1] \in users
        /\ ( form.pc = "awaiting" /\ form'.pc = "idle"
                /\ ~Truthy(auth.result) ) =>
              /\ form'.user = Nothing
              /\ ~form'.navigated
      ]_vars

\* a sign-up returned the new user and the form shows the Link Account view
C22_Witness ==
    /\ form.type = "sign-up"
    /\ form.pc = "idle"
    /\ form.outcome = "value"
    /\ form.user # Nothing
    /\ ~form.navigated

\* a sign-in with accepted credentials came back without a value and the
\* form stayed on the credentials view
C22_WitnessSignInStays ==
    /\ form.type = "sign-in"
    /\ form.pc = "idle"
    /\ form.outcome = "undefined"
    /\ auth.upstream = "ok"
    /\ form.user = Nothing
    /\ ~form.navigated

\* C10: after logoutAccount returns the cookie is deleted, whether
\* account.deleteSession succeeded or failed, and logoutAccount resolves
\* (to undefined or null): it never throws to its caller.
C10_LogoutDeletesCookie ==
    ( auth.pc = "done" /\ auth.op = "logout" )
        => /\ cookie = NoCookie
           /\ auth.result \in {ReturnsUndefined, ReturnsNull}

C10_Witness ==
    /\ auth.pc = "done" /\ auth.op = "logout"
    /\ auth.upstream = "failed"
    /\ auth.cookieBefore # NoCookie
    /\ cookie = NoCookie

====
